---- MODULE Spec2Model ----
(***************************************************************************)
(* Model of mediator.py: the airport mediator (airstrips, garages,         *)
(* aircraft) and the driver initialize_airport.                            *)
(*                                                                         *)
(* Spec     : one run of initialize_airport for every configuration        *)
(*            (airplane_count, helicopter_count, airstrip_count,           *)
(*            garage_count) within the bounds.  One step is one call of    *)
(*            request_land or request_move_to_garage, or one control step  *)
(*            of the loops around them.                                    *)
(* SpecApi  : the objects as built by initialize_airport, with a client    *)
(*            that calls Mediator.request_land,                            *)
(*            Mediator.request_move_to_garage and Garage.place with any    *)
(*            arguments, in any order.                                     *)
(***************************************************************************)
EXTENDS Integers, Sequences, FiniteSets, TLC

VARIABLES
    airplane_count,     \* initialize_airport parameter
    helicopter_count,   \* initialize_airport parameter
    airstrip_count,     \* initialize_airport parameter
    garage_count,       \* initialize_airport parameter
    aircraft,           \* Aircraft objects: id -> [is_landed, is_moved_to_garage]
    airstrip_aircraft,  \* Airstrip._aircraft, by line number
    garage_aircrafts,   \* Garage._aircrafts, by garage number
    pc,                 \* position in initialize_airport / run_traffic_control
    aircrafts,          \* the list run_traffic_control was called with
    i,                  \* index of the for loop in progress
    call,               \* the call made by the last step, with what it returned
    printed,            \* the counts printed at the end of initialize_airport
    pass                \* the current pass of the while loop: the airstrips
                        \* occupied when it began and the calls made in it

vars == <<airplane_count, helicopter_count, airstrip_count, garage_count,
          aircraft, airstrip_aircraft, garage_aircrafts, pc, aircrafts, i,
          call, printed, pass>>

config == <<airplane_count, helicopter_count, airstrip_count, garage_count>>

\* ---------------------------------------------------------------- bounds
MaxAirplanes == 2
MaxHelicopters == 2
MaxAirstrips == 2
MaxGarages == 2
MaxPlaced == 2

\* ------------------------------------------------------------- constants
\* randint(0, 9) == 0
RandLow == 0
RandHigh == 9
RandHit == 0

\* Airstrip._aircraft = None
None == 0

\* ------------------------------------------------------------ the objects
\* airplane_in_air: the airplanes are units 1 .. airplane_count
airplane_in_air == [k \in 1..airplane_count |-> k]

\* helicopter_in_air: the helicopters are the next helicopter_count units
helicopter_in_air == [k \in 1..helicopter_count |-> airplane_count + k]

Units == 1..(airplane_count + helicopter_count)

Airstrips == 1..airstrip_count

Garages == 1..garage_count

NoCall == [op |-> "none", arg |-> 0, draw |-> 0, ret |-> "None",
           garage |-> 0, place_ret |-> "None"]

\* outside the while loop of run_traffic_control
NoPass == [occupied |-> {}, calls |-> <<>>]

\* ------------------------------------------------------ Aircraft methods
landed_wrong_flag(a) ==
    [aircraft EXCEPT ![a].is_moved_to_garage = TRUE]

\* Aircraft.landed
landed(a) ==
    [aircraft EXCEPT ![a].is_landed = TRUE]

move_to_garage_clears_landed(a) ==
    [aircraft EXCEPT ![a] = [is_landed |-> FALSE, is_moved_to_garage |-> TRUE]]

\* Aircraft.move_to_garage
move_to_garage(a) ==
    [aircraft EXCEPT ![a].is_moved_to_garage = TRUE]

\* ------------------------------------------------------ Airstrip methods
\* Airstrip.set_aircraft
set_aircraft(airstrip, a) ==
    [airstrip_aircraft EXCEPT ![airstrip] = a]

unset_aircraft_noop(airstrip) ==
    airstrip_aircraft

\* Airstrip.unset_aircraft (the notification only prints)
unset_aircraft(airstrip) ==
    [airstrip_aircraft EXCEPT ![airstrip] = None]

\* -------------------------------------------------------- Garage methods
prepend(list, a) ==
    <<a>> \o list

\* list.append in Garage.place
append(list, a) ==
    Append(list, a)

place_unchecked(garage, a) ==
    [ret |-> "True",
     aircraft |-> move_to_garage(a),
     garage_aircrafts |-> [garage_aircrafts EXCEPT ![garage] = append(@, a)]]

\* Garage.place: the value returned and the state it leaves
place(garage, a) ==
    IF aircraft[a].is_landed = FALSE
    THEN [ret |-> "False",
          aircraft |-> aircraft,
          garage_aircrafts |-> garage_aircrafts]
    ELSE [ret |-> "True",
          aircraft |-> move_to_garage(a),
          garage_aircrafts |-> [garage_aircrafts EXCEPT ![garage] = append(@, a)]]

\* len(garage.get_placed_aircrafts())
placed_count(garage) ==
    Len(garage_aircrafts[garage])

\* ------------------------------------------------------ Mediator methods
is_free_always(airstrip) ==
    TRUE

\* airstrip.get_aircraft() is None, the negation of the test that continues
is_free(airstrip) ==
    airstrip_aircraft[airstrip] = None

RECURSIVE scan_airstrips(_)
\* the for loop of request_land from airstrip k on: the first free airstrip,
\* or None when the loop runs to its end
scan_airstrips(k) ==
    IF k > airstrip_count THEN None
    ELSE IF is_free(k) THEN k
    ELSE scan_airstrips(k + 1)

RECURSIVE scan_airstrips_down(_)
scan_airstrips_down(k) ==
    IF k < 1 THEN None
    ELSE IF is_free(k) THEN k
    ELSE scan_airstrips_down(k - 1)

found_airstrip_last ==
    scan_airstrips_down(airstrip_count)

\* the airstrip request_land stops at
found_airstrip ==
    scan_airstrips(1)

RECURSIVE min_scan(_, _)
\* min(self._garages, key=...) from garage k on, best being the minimum so
\* far: a later garage replaces it only when its count is strictly smaller
min_scan(k, best) ==
    IF k > garage_count THEN best
    ELSE IF placed_count(k) < placed_count(best) THEN min_scan(k + 1, k)
    ELSE min_scan(k + 1, best)

RECURSIVE min_scan_last(_, _)
min_scan_last(k, best) ==
    IF k > garage_count THEN best
    ELSE IF placed_count(k) <= placed_count(best) THEN min_scan_last(k + 1, k)
    ELSE min_scan_last(k + 1, best)

min_garage_last ==
    min_scan_last(2, 1)

\* current_garage of request_move_to_garage, for a non-empty garage list
min_garage ==
    min_scan(2, 1)

draw_succeeds_two(draw) ==
    draw <= RandHit + 1

draw_succeeds_never(draw) ==
    draw = RandHigh + 1

\* randint(0, 9) == 0
draw_succeeds(draw) ==
    draw = RandHit

\* Mediator.request_land
request_land(a) ==
    LET airstrip == found_airstrip IN
    IF airstrip = None
    THEN /\ call' = [NoCall EXCEPT !.op = "request_land", !.arg = a,
                                   !.ret = "False"]
         /\ UNCHANGED <<aircraft, airstrip_aircraft, garage_aircrafts>>
    ELSE /\ airstrip_aircraft' = set_aircraft(airstrip, a)
         /\ aircraft' = landed(a)
         /\ call' = [NoCall EXCEPT !.op = "request_land", !.arg = a,
                                   !.ret = "True"]
         /\ UNCHANGED garage_aircrafts

\* Mediator.request_move_to_garage; call.ret names the exception when the
\* call raised
request_move_to_garage(airstrip, draw) ==
    LET landed_aircraft == airstrip_aircraft[airstrip]
        this == [NoCall EXCEPT !.op = "request_move_to_garage",
                               !.arg = airstrip, !.draw = draw]
    IN
    IF landed_aircraft # None /\ draw_succeeds(draw)
    THEN IF garage_count = 0
         THEN \* min() of an empty list
              /\ call' = [this EXCEPT !.ret = "ValueError"]
              /\ UNCHANGED <<aircraft, airstrip_aircraft, garage_aircrafts>>
         ELSE LET current_garage == min_garage
                  placed == place(current_garage, landed_aircraft)
              IN
              /\ aircraft' = placed.aircraft
              /\ garage_aircrafts' = placed.garage_aircrafts
              /\ airstrip_aircraft' = unset_aircraft(airstrip)
              /\ call' = [this EXCEPT !.garage = current_garage,
                                      !.place_ret = placed.ret]
    ELSE IF landed_aircraft = None
         THEN \* None.display_no_seats_message()
              /\ call' = [this EXCEPT !.ret = "AttributeError"]
              /\ UNCHANGED <<aircraft, airstrip_aircraft, garage_aircrafts>>
         ELSE /\ call' = this
              /\ UNCHANGED <<aircraft, airstrip_aircraft, garage_aircrafts>>

Raised(c) == c.ret \in {"ValueError", "AttributeError"}

all_not_moved ==
    \A k \in 1..Len(aircrafts) : ~aircraft[aircrafts[k]].is_moved_to_garage

any_is_landed ==
    \E k \in 1..Len(aircrafts) : aircraft[aircrafts[k]].is_landed

\* any(not aircraft.is_moved_to_garage() for aircraft in aircrafts)
any_not_moved ==
    \E k \in 1..Len(aircrafts) : ~aircraft[aircrafts[k]].is_moved_to_garage

has_aircraft_unguarded(airstrip) ==
    TRUE

\* landed_aircraft = airstrip.get_aircraft(); if landed_aircraft:
has_aircraft(airstrip) ==
    airstrip_aircraft[airstrip] # None

aircraft_at_reversed(list, k) ==
    list[Len(list) + 1 - k]

\* for aircraft in list: the aircraft of the k-th iteration
aircraft_at(list, k) ==
    list[k]

first_control_list_airplanes ==
    airplane_in_air

\* the list of the first call of run_traffic_control
first_control_list ==
    helicopter_in_air

\* the list of the second call of run_traffic_control
second_control_list ==
    airplane_in_air

phase_after_admit_first(p) ==
    IF p = "while" THEN "admit"
    ELSE IF p = "admit" THEN "drain"
    ELSE "while"

\* the body of the while loop: the airstrip loop, then the aircraft loop,
\* then the condition again
phase_after(p) ==
    IF p = "while" THEN "drain"
    ELSE IF p = "drain" THEN "admit"
    ELSE "while"

\* ------------------------------------------------------------------ Init
\* the objects initialize_airport builds, before its first request_land
Objects ==
    /\ airplane_count \in 0..MaxAirplanes
    /\ helicopter_count \in 0..MaxHelicopters
    /\ airstrip_count \in 0..MaxAirstrips
    /\ garage_count \in 0..MaxGarages
    /\ aircraft = [a \in Units |->
                     [is_landed |-> FALSE, is_moved_to_garage |-> FALSE]]
    /\ airstrip_aircraft = [s \in Airstrips |-> None]
    /\ garage_aircrafts = [g \in Garages |-> <<>>]
    /\ aircrafts = <<>>
    /\ call = NoCall
    /\ printed = <<>>
    /\ pass = NoPass

Init ==
    /\ Objects
    /\ pc = "land_airplanes"
    /\ i = 1

\* ------------------------------------------------- initialize_airport
Control ==
    /\ call' = NoCall
    /\ UNCHANGED <<config, aircraft, airstrip_aircraft, garage_aircrafts,
                   printed>>

\* for aircraft in airplane_in_air: mediator.request_land(aircraft)
LandAirplane ==
    /\ pc = "land_airplanes"
    /\ i <= Len(airplane_in_air)
    /\ request_land(aircraft_at(airplane_in_air, i))
    /\ i' = i + 1
    /\ UNCHANGED <<config, pc, aircrafts, printed>>
    /\ UNCHANGED pass

LandAirplanesEnd ==
    /\ pc = "land_airplanes"
    /\ i > Len(airplane_in_air)
    /\ pc' = "land_helicopters"
    /\ i' = 1
    /\ UNCHANGED aircrafts
    /\ Control
    /\ UNCHANGED pass

\* for helicopter in helicopter_in_air: mediator.request_land(helicopter)
LandHelicopter ==
    /\ pc = "land_helicopters"
    /\ i <= Len(helicopter_in_air)
    /\ request_land(aircraft_at(helicopter_in_air, i))
    /\ i' = i + 1
    /\ UNCHANGED <<config, pc, aircrafts, printed>>
    /\ UNCHANGED pass

\* mediator.run_traffic_control(helicopter_in_air)
LandHelicoptersEnd ==
    /\ pc = "land_helicopters"
    /\ i > Len(helicopter_in_air)
    /\ pc' = "helicopters_while"
    /\ aircrafts' = first_control_list
    /\ i' = 1
    /\ Control
    /\ UNCHANGED pass

InLoop(p) == pc \in {"helicopters_" \o p, "airplanes_" \o p}

At(p) == IF pc \in {"helicopters_while", "helicopters_drain",
                    "helicopters_admit"}
         THEN "helicopters_" \o p
         ELSE "airplanes_" \o p

\* ------------------------------------------------- run_traffic_control
\* the while condition holds: start a pass
WhileEnter ==
    /\ InLoop("while")
    /\ any_not_moved
    /\ pc' = At(phase_after("while"))
    /\ i' = 1
    /\ UNCHANGED aircrafts
    /\ Control
    /\ pass' = [occupied |-> {s \in Airstrips : airstrip_aircraft[s] # None},
                calls |-> <<>>]

\* run_traffic_control(helicopter_in_air) returns;
\* mediator.run_traffic_control(airplane_in_air)
HelicoptersReturn ==
    /\ pc = "helicopters_while"
    /\ ~any_not_moved
    /\ pc' = "airplanes_while"
    /\ aircrafts' = second_control_list
    /\ i' = 1
    /\ Control
    /\ pass' = NoPass

\* run_traffic_control(airplane_in_air) returns
AirplanesReturn ==
    /\ pc = "airplanes_while"
    /\ ~any_not_moved
    /\ pc' = "print"
    /\ aircrafts' = <<>>
    /\ i' = 1
    /\ Control
    /\ pass' = NoPass

\* for airstrip in self._airstrips: the airstrip is empty
DrainSkip ==
    /\ InLoop("drain")
    /\ i <= airstrip_count
    /\ ~has_aircraft(i)
    /\ i' = i + 1
    /\ UNCHANGED <<pc, aircrafts>>
    /\ Control
    /\ UNCHANGED pass

\* for airstrip in self._airstrips: self.request_move_to_garage(airstrip)
DrainRequest ==
    /\ InLoop("drain")
    /\ i <= airstrip_count
    /\ has_aircraft(i)
    /\ \E draw \in RandLow..RandHigh : request_move_to_garage(i, draw)
    /\ IF Raised(call')
       THEN pc' = "raised" /\ UNCHANGED i
       ELSE pc' = pc /\ i' = i + 1
    /\ UNCHANGED <<config, aircrafts, printed>>
    /\ pass' = [pass EXCEPT
                   !.calls = Append(@, <<"request_move_to_garage", i>>)]

DrainEnd ==
    /\ InLoop("drain")
    /\ i > airstrip_count
    /\ pc' = At(phase_after("drain"))
    /\ i' = 1
    /\ UNCHANGED aircrafts
    /\ Control
    /\ UNCHANGED pass

\* for aircraft in aircrafts: the aircraft has landed
AdmitSkip ==
    /\ InLoop("admit")
    /\ i <= Len(aircrafts)
    /\ aircraft[aircraft_at(aircrafts, i)].is_landed
    /\ i' = i + 1
    /\ UNCHANGED <<pc, aircrafts>>
    /\ Control
    /\ UNCHANGED pass

\* for aircraft in aircrafts: self.request_land(aircraft)
AdmitRequest ==
    /\ InLoop("admit")
    /\ i <= Len(aircrafts)
    /\ ~aircraft[aircraft_at(aircrafts, i)].is_landed
    /\ request_land(aircraft_at(aircrafts, i))
    /\ i' = i + 1
    /\ UNCHANGED <<config, pc, aircrafts, printed>>
    /\ pass' = [pass EXCEPT
                   !.calls = Append(@, <<"request_land",
                                         aircraft_at(aircrafts, i)>>)]

AdmitEnd ==
    /\ InLoop("admit")
    /\ i > Len(aircrafts)
    /\ pc' = At(phase_after("admit"))
    /\ i' = 1
    /\ UNCHANGED aircrafts
    /\ Control
    /\ UNCHANGED pass

\* for garage in garages: print(... len(garage.get_placed_aircrafts()))
PrintGarages ==
    /\ pc = "print"
    /\ printed' = [g \in Garages |-> placed_count(g)]
    /\ pc' = "done"
    /\ call' = NoCall
    /\ UNCHANGED <<config, aircraft, airstrip_aircraft, garage_aircrafts,
                   aircrafts, i>>
    /\ UNCHANGED pass

Next ==
    \/ LandAirplane
    \/ LandAirplanesEnd
    \/ LandHelicopter
    \/ LandHelicoptersEnd
    \/ WhileEnter
    \/ HelicoptersReturn
    \/ AirplanesReturn
    \/ DrainSkip
    \/ DrainRequest
    \/ DrainEnd
    \/ AdmitSkip
    \/ AdmitRequest
    \/ AdmitEnd
    \/ PrintGarages

Spec == Init /\ [][Next]_vars

\* a call of request_move_to_garage whose draw succeeds
DrainHitStep ==
    /\ DrainRequest
    /\ call'.draw = RandHit

\* the run never stops between two steps, and a draw that is made again and
\* again does not miss for ever
SpecFair ==
    /\ Init
    /\ [][Next]_vars
    /\ WF_vars(Next)
    /\ SF_vars(DrainHitStep)

\* ------------------------------------------------------------- SpecApi
\* the aircraft kinds differ only in what they print: the client's fleet is
\* made of airplanes
InitApi ==
    /\ Objects
    /\ helicopter_count = 0
    /\ pc = "api"
    /\ i = 0

PlacedTotal ==
    LET RECURSIVE Sum(_)
        Sum(g) == IF g = 0 THEN 0 ELSE placed_count(g) + Sum(g - 1)
    IN Sum(garage_count)

\* a client calls mediator.request_land(a)
ApiRequestLand ==
    /\ pc = "api"
    /\ \E a \in Units : request_land(a)
    /\ UNCHANGED <<config, pc, aircrafts, i, printed>>
    /\ UNCHANGED pass

\* a client calls mediator.request_move_to_garage(airstrip)
ApiRequestMoveToGarage ==
    /\ pc = "api"
    /\ PlacedTotal < MaxPlaced
    /\ \E airstrip \in Airstrips : \E draw \in RandLow..RandHigh :
          request_move_to_garage(airstrip, draw)
    /\ pc' = IF Raised(call') THEN "raised" ELSE pc
    /\ UNCHANGED <<config, aircrafts, i, printed>>
    /\ UNCHANGED pass

\* a client calls garage.place(a)
ApiPlace ==
    /\ pc = "api"
    /\ \E garage \in Garages : \E a \in Units :
          /\ aircraft[a].is_landed => PlacedTotal < MaxPlaced
          /\ LET placed == place(garage, a) IN
             /\ aircraft' = placed.aircraft
             /\ garage_aircrafts' = placed.garage_aircrafts
             /\ call' = [NoCall EXCEPT !.op = "place", !.arg = a,
                                       !.garage = garage,
                                       !.ret = placed.ret]
    /\ UNCHANGED <<config, airstrip_aircraft, pc, aircrafts, i, printed>>
    /\ UNCHANGED pass

NextApi ==
    \/ ApiRequestLand
    \/ ApiRequestMoveToGarage
    \/ ApiPlace

SpecApi == InitApi /\ [][NextApi]_vars

\* ================================================================ claims
IsLanded(a) == aircraft[a].is_landed

IsParked(a) == aircraft[a].is_moved_to_garage

IsPrefix(s, t) == Len(s) <= Len(t) /\ SubSeq(t, 1, Len(s)) = s

\* C1: in every state of a run of initialize_airport, every aircraft that is
\* moved to a garage is landed (parked => landed).
C1_ParkedImpliesLanded ==
    \A a \in Units : IsParked(a) => IsLanded(a)

\* a run in which one aircraft is parked while another is still in the air
C1_Witness ==
    \E a, b \in Units : IsParked(a) /\ IsLanded(a) /\ ~IsLanded(b)

\* C2: in every step no aircraft's landed flag or parked flag goes from true
\* to false, and an aircraft becomes parked only in a step before which it
\* was landed and the occupant of an airstrip (never from the air).
C2_Lifecycle ==
    [][\A a \in Units :
         /\ IsLanded(a) => aircraft'[a].is_landed
         /\ IsParked(a) => aircraft'[a].is_moved_to_garage
         /\ (~IsParked(a) /\ aircraft'[a].is_moved_to_garage) =>
               /\ IsLanded(a)
               /\ \E s \in Airstrips : airstrip_aircraft[s] = a]_vars

\* a finished run in which three aircraft went through one airstrip
C2_Witness ==
    /\ pc = "done"
    /\ airstrip_count = 1
    /\ Cardinality({a \in Units : IsParked(a)}) >= 3

\* C3: at every operation boundary, every airstrip that has an occupant
\* holds an aircraft that is landed and not parked.
C3_SlotHoldsLandedUnparked ==
    \A s \in Airstrips :
        airstrip_aircraft[s] # None =>
            /\ IsLanded(airstrip_aircraft[s])
            /\ ~IsParked(airstrip_aircraft[s])

\* just after a request to move to a garage, an airstrip is occupied while
\* another aircraft is already parked
C3_Witness ==
    /\ \E s \in Airstrips : airstrip_aircraft[s] # None
    /\ \E a \in Units : IsParked(a)
    /\ call.op = "request_move_to_garage"

\* C4: every occupant of every garage is parked, and in every step each
\* garage's list after the step has its list before the step as a prefix.
C4_PoolsAppendOnly ==
    /\ [](\A g \in Garages : \A k \in 1..Len(garage_aircrafts[g]) :
             IsParked(garage_aircrafts[g][k]))
    /\ [][\A g \in Garages :
             IsPrefix(garage_aircrafts[g], garage_aircrafts'[g])]_vars

\* a garage that received a second aircraft
C4_Witness ==
    \E g \in Garages : Len(garage_aircrafts[g]) >= 2

FreeAirstrips == {s \in Airstrips : airstrip_aircraft[s] = None}

LowestFree == CHOOSE s \in FreeAirstrips : \A t \in FreeAirstrips : s <= t

\* C5: a request_land(a) made while some airstrip is free puts a on the free
\* airstrip with the lowest number, marks a landed, returns True, and leaves
\* every other airstrip, every garage and every other aircraft as they were.
C5_FirstFit ==
    [][\A a \in Units :
         (call'.op = "request_land" /\ call'.arg = a /\ FreeAirstrips # {}) =>
            /\ airstrip_aircraft' =
                  [airstrip_aircraft EXCEPT ![LowestFree] = a]
            /\ aircraft'[a].is_landed
            /\ aircraft'[a].is_moved_to_garage = aircraft[a].is_moved_to_garage
            /\ call'.ret = "True"
            /\ \A b \in Units \ {a} : aircraft'[b] = aircraft[b]
            /\ garage_aircrafts' = garage_aircrafts]_vars

\* a landing on airstrip 1, freed by a drain, while airstrip 2 is still held
\* by another aircraft
C5_Witness ==
    /\ call.op = "request_land"
    /\ call.ret = "True"
    /\ airstrip_count >= 2
    /\ airstrip_aircraft[1] = call.arg
    /\ airstrip_aircraft[2] \notin {None, call.arg}
    /\ \E a \in Units : IsParked(a)

\* C6: a request_land(a) made while every airstrip is occupied returns False
\* and changes nothing: a is still in the air and the airstrips, garages and
\* aircraft are as they were.
C6_NoFreeSlot ==
    [][\A a \in Units :
         (call'.op = "request_land" /\ call'.arg = a /\ FreeAirstrips = {}) =>
            /\ call'.ret = "False"
            /\ ~aircraft'[a].is_landed
            /\ UNCHANGED <<aircraft, airstrip_aircraft,
                           garage_aircrafts>>]_vars

\* a refused landing with an airstrip that exists and is occupied
C6_Witness ==
    /\ call.op = "request_land"
    /\ call.ret = "False"
    /\ airstrip_count >= 1
    /\ ~IsLanded(call.arg)

\* C7: Garage.place(a) with a not landed returns False and changes no state:
\* the garages are as they were and a is still not parked.
C7_PlaceNotLanded ==
    [][\A a \in Units :
         (call'.op = "place" /\ call'.arg = a /\ ~IsLanded(a)) =>
            /\ call'.ret = "False"
            /\ garage_aircrafts' = garage_aircrafts
            /\ aircraft' = aircraft
            /\ ~aircraft'[a].is_moved_to_garage]_vars

\* a refused placement into a garage that already holds an aircraft
C7_Witness ==
    /\ call.op = "place"
    /\ call.ret = "False"
    /\ ~IsLanded(call.arg)
    /\ Len(garage_aircrafts[call.garage]) >= 1

\* what C8 says of a request_move_to_garage(s) on an occupied airstrip whose
\* draw succeeded
PlacedInMinGarage(s) ==
    LET a == airstrip_aircraft[s] IN
    \E g \in Garages :
        /\ \A h \in Garages :
              Len(garage_aircrafts[g]) <= Len(garage_aircrafts[h])
        /\ \A h \in Garages :
              Len(garage_aircrafts[h]) = Len(garage_aircrafts[g]) => g <= h
        /\ garage_aircrafts' =
              [garage_aircrafts EXCEPT ![g] = Append(@, a)]
        /\ call'.garage = g
        /\ call'.place_ret = "True"
        /\ aircraft'[a].is_moved_to_garage
        /\ airstrip_aircraft'[s] = None

DrainHit(s) ==
    /\ call'.op = "request_move_to_garage"
    /\ call'.arg = s
    /\ airstrip_aircraft[s] # None
    /\ call'.draw = RandHit

\* C8 as stated: after a request_move_to_garage on an occupied airstrip whose
\* draw is 0, the occupant is in a garage of minimal count (the lowest
\* numbered of them), place returned True, the aircraft is parked and the
\* airstrip is empty.
C8_Original ==
    [][\A s \in Airstrips : DrainHit(s) => PlacedInMinGarage(s)]_vars

\* C8 (amended): the same, when there is at least one garage; with no garage
\* the call raises ValueError and changes no state.
C8_MinGarage ==
    [][\A s \in Airstrips :
         DrainHit(s) =>
            IF garage_count >= 1
            THEN PlacedInMinGarage(s)
            ELSE /\ call'.ret = "ValueError"
                 /\ UNCHANGED <<aircraft, airstrip_aircraft,
                                garage_aircrafts>>]_vars

\* a placement into garage 2, which held fewer aircraft than garage 1
C8_Witness ==
    /\ call.op = "request_move_to_garage"
    /\ call.place_ret = "True"
    /\ call.garage = 2
    /\ Len(garage_aircrafts[2]) < Len(garage_aircrafts[1]) + 1
    /\ airstrip_aircraft[call.arg] = None

\* C9: a request_move_to_garage(s) on an occupied airstrip whose draw is one
\* of 1..9 changes no state: the occupant stays on s, landed and not parked,
\* and the garages and the other airstrips are as they were.
C9_DrawFails ==
    [][\A s \in Airstrips :
         (/\ call'.op = "request_move_to_garage"
          /\ call'.arg = s
          /\ airstrip_aircraft[s] # None
          /\ call'.draw \in (RandLow..RandHigh) \ {RandHit}) =>
            /\ UNCHANGED <<aircraft, airstrip_aircraft, garage_aircrafts>>
            /\ aircraft'[airstrip_aircraft'[s]].is_landed
            /\ ~aircraft'[airstrip_aircraft'[s]].is_moved_to_garage
            /\ call'.ret = "None"
            /\ call'.place_ret = "None"]_vars

\* a missed draw (the draw 1) with a garage already in use
C9_Witness ==
    /\ call.op = "request_move_to_garage"
    /\ call.draw = RandHit + 1
    /\ airstrip_aircraft[call.arg] # None
    /\ \E g \in Garages : Len(garage_aircrafts[g]) >= 1

LandedUnparked == {a \in Units : IsLanded(a) /\ ~IsParked(a)}

\* C10: in every state the number of aircraft that are landed and not parked
\* is at most the number of airstrips, and the number of landed aircraft is
\* at most the number of airstrips plus the number of parked aircraft.
C10_AdmissionBound ==
    /\ Cardinality(LandedUnparked) <= airstrip_count
    /\ Cardinality({a \in Units : IsLanded(a)}) <=
          airstrip_count + Cardinality({a \in Units : IsParked(a)})

\* more aircraft have landed than there are airstrips, every airstrip is
\* held and an aircraft is still waiting in the air
C10_Witness ==
    /\ airstrip_count >= 1
    /\ Cardinality({a \in Units : IsLanded(a)}) > airstrip_count
    /\ Cardinality(LandedUnparked) = airstrip_count
    /\ \E a \in Units : ~IsLanded(a)

HasSlotAndPool == airstrip_count >= 1 /\ garage_count >= 1

Airplanes == {airplane_in_air[k] : k \in 1..airplane_count}

Helicopters == {helicopter_in_air[k] : k \in 1..helicopter_count}

\* C11: with at least one airstrip and one garage, each call of
\* run_traffic_control eventually returns, and when it does every aircraft
\* of its list is parked (given that a draw made again and again on an
\* occupied airstrip eventually succeeds).
C11_Terminates ==
    /\ (HasSlotAndPool /\ pc = "helicopters_while") ~>
          (pc = "airplanes_while" /\ \A h \in Helicopters : IsParked(h))
    /\ (HasSlotAndPool /\ pc = "airplanes_while") ~>
          (pc = "print" /\ \A a \in Airplanes : IsParked(a))

\* a finished run with more aircraft of each kind than airstrips
C11_Witness ==
    /\ pc = "done"
    /\ HasSlotAndPool
    /\ airplane_count > airstrip_count
    /\ helicopter_count > airstrip_count
    /\ \A a \in Units : IsParked(a)

\* C12: with no airstrip, a call of run_traffic_control whose list holds an
\* aircraft never returns: every request_land returns False, no aircraft is
\* ever landed or parked, and the condition of the while loop stays true.
C12_ZeroSlotsNeverEnds ==
    airstrip_count = 0 =>
        /\ \A a \in Units : ~IsLanded(a) /\ ~IsParked(a)
        /\ call.op = "request_land" => call.ret = "False"
        /\ pc # "raised"
        /\ aircrafts # <<>> =>
              \E k \in 1..Len(aircrafts) : ~IsParked(aircrafts[k])
        /\ helicopter_count >= 1 =>
              pc \in {"land_airplanes", "land_helicopters",
                      "helicopters_while", "helicopters_drain",
                      "helicopters_admit"}
        /\ airplane_count >= 1 => pc \notin {"print", "done"}

\* with no airstrip and no helicopter, a pass of the airplane loop ends on a
\* refused landing
C12_Witness ==
    /\ airstrip_count = 0
    /\ pc = "airplanes_admit"
    /\ i > 1
    /\ call.op = "request_land"
    /\ call.ret = "False"

\* C13 as stated: no run reaches an error state, whatever the configuration
\* (zero airstrips or zero garages included).
C13_Original ==
    pc # "raised" /\ ~Raised(call)

\* C13 (amended): no run with at least one garage reaches an error state
\* (zero airstrips included); the only error is the ValueError of a
\* successful draw on an occupied airstrip when there is no garage.
C13_NoErrorWithGarage ==
    /\ garage_count >= 1 => (pc # "raised" /\ ~Raised(call))
    /\ (pc = "raised" \/ Raised(call)) =>
          /\ pc = "raised"
          /\ garage_count = 0
          /\ airstrip_count >= 1
          /\ call.op = "request_move_to_garage"
          /\ call.draw = RandHit
          /\ call.ret = "ValueError"

\* in a run with a garage, a landing is refused in an admission phase after
\* another aircraft was parked: failures that are not errors
C13_Witness ==
    /\ garage_count >= 1
    /\ InLoop("admit")
    /\ call.op = "request_land"
    /\ call.ret = "False"
    /\ \E a \in Units : IsParked(a)

\* C14: every request_move_to_garage of a run is made on an airstrip that
\* has an occupant at that moment, so the read of the occupant in its else
\* branch never meets an empty airstrip (no AttributeError).
C14_DrainOnlyOccupied ==
    [][call'.op = "request_move_to_garage" =>
          /\ call'.arg \in Airstrips
          /\ airstrip_aircraft[call'.arg] # None
          /\ call'.ret # "AttributeError"]_vars

\* a request on airstrip 2 in a pass that skipped the empty airstrip 1
C14_Witness ==
    /\ airstrip_count >= 2
    /\ call.op = "request_move_to_garage"
    /\ call.arg = 2
    /\ airstrip_aircraft[1] = None
    /\ call.draw # RandHit

PassCalls == pass.calls

IsDrain(k) == PassCalls[k][1] = "request_move_to_garage"

IsAdmit(k) == PassCalls[k][1] = "request_land"

\* C15: among the calls of one pass no request_move_to_garage follows a
\* request_land; the requests to move are made in ascending airstrip order,
\* at most one per airstrip and only on airstrips occupied when the pass
\* began; and once the admission phase is reached every airstrip occupied
\* when the pass began has had its request.
C15_DrainBeforeAdmit ==
    /\ \A j, k \in 1..Len(PassCalls) :
          (j < k /\ IsDrain(k)) =>
              /\ IsDrain(j)
              /\ PassCalls[j][2] < PassCalls[k][2]
    /\ \A k \in 1..Len(PassCalls) :
          IsDrain(k) => PassCalls[k][2] \in pass.occupied
    /\ (InLoop("admit") \/ \E k \in 1..Len(PassCalls) : IsAdmit(k)) =>
          {PassCalls[k][2] : k \in {j \in 1..Len(PassCalls) : IsDrain(j)}}
             = pass.occupied
    /\ call.op = "request_move_to_garage" => ~InLoop("admit")
    /\ (call.op = "request_land" /\ pass # NoPass) => InLoop("admit")

\* a pass in which two airstrips had their request, one was freed, and an
\* aircraft admitted in the same pass took the freed airstrip
C15_Witness ==
    \E j, k, m \in 1..Len(PassCalls) :
        /\ j < k /\ k < m
        /\ IsDrain(j) /\ IsDrain(k) /\ IsAdmit(m)
        /\ \E s \in {PassCalls[j][2], PassCalls[k][2]} :
              airstrip_aircraft[s] = PassCalls[m][2]

\* how many times aircraft a stands in the list of garage g
TimesIn(g, a) ==
    Cardinality({k \in 1..Len(garage_aircrafts[g]) :
                    garage_aircrafts[g][k] = a})

\* the garages whose list holds aircraft a
GaragesOf(a) == {g \in Garages : TimesIn(g, a) >= 1}

\* the airstrips held by aircraft a
AirstripsOf(a) == {s \in Airstrips : airstrip_aircraft[s] = a}

RECURSIVE SumTo(_, _)
SumTo(f, n) == IF n = 0 THEN 0 ELSE f[n] + SumTo(f, n - 1)

\* C16: when initialize_airport has finished with at least one airstrip and
\* one garage, every airstrip is empty, every aircraft is in exactly one
\* garage (once), and the printed counts are the garages' counts and sum to
\* airplane_count + helicopter_count.
C16_FinalState ==
    (pc = "done" /\ HasSlotAndPool) =>
        /\ \A s \in Airstrips : airstrip_aircraft[s] = None
        /\ \A a \in Units :
              /\ Cardinality(GaragesOf(a)) = 1
              /\ \A g \in GaragesOf(a) : TimesIn(g, a) = 1
        /\ DOMAIN printed = Garages
        /\ \A g \in Garages : printed[g] = Len(garage_aircrafts[g])
        /\ SumTo(printed, garage_count) = airplane_count + helicopter_count

\* a finished run that spread at least three aircraft over two garages
C16_Witness ==
    /\ pc = "done"
    /\ airstrip_count >= 1
    /\ garage_count = 2
    /\ airplane_count + helicopter_count >= 3
    /\ printed[1] + printed[2] >= 3

\* the places of garage lists that hold aircraft a
PlacesOf(a) ==
    {gk \in {<<g, k>> : g \in Garages, k \in 1..(airplane_count + helicopter_count + 1)} :
        /\ gk[2] <= Len(garage_aircrafts[gk[1]])
        /\ garage_aircrafts[gk[1]][gk[2]] = a}

\* C17: at every operation boundary each aircraft is in exactly one place:
\* in the air (on no airstrip, in no garage), on exactly one airstrip, or
\* once in exactly one garage; and an aircraft that has landed is on an
\* airstrip or in a garage.
C17_Conservation ==
    /\ \A g \in Garages :
          Len(garage_aircrafts[g]) <= airplane_count + helicopter_count
    /\ \A a \in Units :
          LET places == Cardinality(AirstripsOf(a)) + Cardinality(PlacesOf(a))
          IN /\ places <= 1
             /\ IsLanded(a) <=> places = 1
             /\ ~IsLanded(a) => places = 0

\* one aircraft in the air, a second on an airstrip and a third in a garage
C17_Witness ==
    \E a, b, c \in Units :
        /\ ~IsLanded(a)
        /\ AirstripsOf(b) # {}
        /\ PlacesOf(c) # {}

RECURSIVE PlacedIn(_)
\* the number of aircraft in garages 1 .. g
PlacedIn(g) ==
    IF g = 0 THEN 0 ELSE Len(garage_aircrafts[g]) + PlacedIn(g - 1)

\* C18: the k-th successful placement of a run goes to garage
\* ((k - 1) mod garage_count) + 1; so in every state the garage counts do
\* not increase with the garage number and differ by at most 1.
C18_RoundRobin ==
    /\ [](\A g, h \in Garages :
             g < h =>
                /\ Len(garage_aircrafts[g]) >= Len(garage_aircrafts[h])
                /\ Len(garage_aircrafts[g]) - Len(garage_aircrafts[h]) <= 1)
    /\ [][(call'.op = "request_move_to_garage" /\ call'.place_ret = "True") =>
            /\ garage_count >= 1
            /\ call'.garage = (PlacedIn(garage_count) % garage_count) + 1
            /\ Len(garage_aircrafts'[call'.garage]) =
                  Len(garage_aircrafts[call'.garage]) + 1]_vars

\* the third placement of a run with two garages came back to garage 1
C18_Witness ==
    /\ garage_count = 2
    /\ call.op = "request_move_to_garage"
    /\ call.place_ret = "True"
    /\ call.garage = 1
    /\ PlacedIn(garage_count) = 3
    /\ Len(garage_aircrafts[1]) = 2

\* the landed aircraft of a list are the first ones of it
LandedPrefix(list) ==
    \A j, k \in 1..Len(list) :
        (j < k /\ IsLanded(list[k])) => IsLanded(list[j])

\* C19: in every state, within the airplane list and within the helicopter
\* list, the landed aircraft form a prefix of the list.
C19_ListOrder ==
    /\ LandedPrefix(airplane_in_air)
    /\ LandedPrefix(helicopter_in_air)

\* during the helicopter loop, after a parking, the first helicopter has
\* landed and the second has not, and likewise for the airplanes
C19_Witness ==
    /\ airplane_count >= 2
    /\ helicopter_count >= 2
    /\ IsLanded(airplane_in_air[1]) /\ ~IsLanded(airplane_in_air[2])
    /\ IsLanded(helicopter_in_air[1]) /\ ~IsLanded(helicopter_in_air[2])
    /\ call.op = "request_land"

\* C20: a call of run_traffic_control requests landings only for the
\* aircraft of its list, while its requests to move concern whatever
\* aircraft holds the airstrip; the airplane loop starts only when every
\* helicopter is parked, so an airplane that did not land in the first
\* airplane loop of initialize_airport lands only in the airplane call of
\* run_traffic_control, after all helicopters are parked.
C20_ListsAndOrder ==
    /\ [](pc \in {"airplanes_while", "airplanes_drain", "airplanes_admit",
                  "print", "done"} =>
             \A h \in Helicopters : IsParked(h))
    /\ [][/\ (call'.op = "request_land" /\ pc = "helicopters_admit") =>
                call'.arg \in Helicopters
          /\ (call'.op = "request_land" /\ pc = "airplanes_admit") =>
                call'.arg \in Airplanes
          /\ \A a \in Airplanes :
                (~IsLanded(a) /\ aircraft'[a].is_landed
                    /\ pc # "land_airplanes") =>
                   /\ pc = "airplanes_admit"
                   /\ \A h \in Helicopters : IsParked(h)
          /\ \A h \in Helicopters :
                (~IsLanded(h) /\ aircraft'[h].is_landed) =>
                   pc \in {"land_helicopters", "helicopters_admit"}]_vars

\* during the helicopter loop an airplane that landed at the start is
\* parked, while another airplane and a helicopter are still in the air
C20_Witness ==
    /\ pc = "helicopters_drain"
    /\ call.op = "request_move_to_garage"
    /\ call.place_ret = "True"
    /\ garage_aircrafts[call.garage][Len(garage_aircrafts[call.garage])]
          \in Airplanes
    /\ \E a \in Airplanes : ~IsLanded(a)
    /\ \E h \in Helicopters : ~IsLanded(h)

====
